---- MODULE Spec2Model ----
(***************************************************************************)
(* Model of BasicUrlscanPy: the retrying session factory urlscan_session   *)
(* and the client BaseUrlscan (constructor, execute, and the per-endpoint  *)
(* wrappers) of base.py, with the exception type of exceptions.py.         *)
(*                                                                         *)
(* Python values are records [t, v, items]: t is the value's type name, v  *)
(* its printed content, items the (key, value) pairs of a dict in          *)
(* insertion order.                                                        *)
(***************************************************************************)
EXTENDS Naturals, Integers, Sequences, FiniteSets, TLC

VARIABLES
    args,       \* the arguments BaseUrlscan(...) was constructed with
    headers,    \* self.headers
    session,    \* self.session: its retry strategy and how often close() ran
    call,       \* the latest public call and its arguments
    result,     \* how that call ended: a returned value or a raised exception
    request,    \* the arguments of the session.request(...) call that call made, if any
    wire,       \* what happened on the wire during that session.request call
    nrequests,  \* number of session.request(...) calls issued so far
    ncalls      \* number of public calls made so far

vars == <<args, headers, session, call, result, request, wire, nrequests, ncalls>>

\* ------------------------------------------------------------------ bounds
MaxCalls == 2
MaxRetries == 2

\* ----------------------------------------------------------- Python values
Val(t, v) == [t |-> t, v |-> v, items |-> <<>>]
None == Val("NoneType", "None")
Str(s) == Val("str", s)
Dict(items) == [t |-> "dict", v |-> "", items |-> items]
OrderedDict(items) == [t |-> "OrderedDict", v |-> "", items |-> items]
\* a reference, stored inside a dict, to that same dict (d['me'] = d)
SelfRef == [t |-> "dict", v |-> "<self>", items |-> <<>>]

\* bool(x)
Truthy(x) ==
    CASE x.t = "NoneType" -> FALSE
      [] x.t = "str" -> x.v # ""
      [] x.t = "int" -> x.v # "0"
      [] x.t = "bool" -> x.v = "True"
      [] x.t = "list" -> x.v # "[]"
      [] x.t \in {"dict", "OrderedDict"} -> x.items # <<>> \/ x.v = "<self>"
      [] OTHER -> TRUE

\* key in d
Contains(d, key) == \E i \in 1..Len(d.items) : d.items[i][1] = Str(key)

\* d.get(key)
Get(d, key) ==
    IF Contains(d, key)
    THEN d.items[CHOOSE i \in 1..Len(d.items) : d.items[i][1] = Str(key)][2]
    ELSE None

\* ------------------------------------------------------------- json.dumps
JsonScalar(x) ==
    CASE x.t = "str" -> "\"" \o x.v \o "\""
      [] x.t = "NoneType" -> "null"
      [] x.t = "bool" -> (IF x.v = "True" THEN "true" ELSE "false")
      [] OTHER -> x.v

JsonKeyOk(k) == k.t \in {"str", "int", "float", "bool", "NoneType"}
JsonKey(k) == IF k.t = "str" THEN JsonScalar(k) ELSE "\"" \o JsonScalar(k) \o "\""
JsonValueOk(x) == x.t \in {"str", "int", "float", "bool", "NoneType", "list"}

RECURSIVE DumpItems(_, _, _)
DumpItems(items, i, acc) ==
    IF i > Len(items)
    THEN [exc |-> "", text |-> acc \o "}"]
    ELSE LET k == items[i][1]
             x == items[i][2]
             sep == IF i = 1 THEN "" ELSE ", "
         IN  IF ~JsonKeyOk(k) THEN [exc |-> "TypeError", text |-> ""]
             ELSE IF x = SelfRef THEN [exc |-> "ValueError", text |-> ""]
             ELSE IF ~JsonValueOk(x) THEN [exc |-> "TypeError", text |-> ""]
             ELSE DumpItems(items, i + 1,
                            acc \o sep \o JsonKey(k) \o ": " \o JsonScalar(x))

\* json.dumps(d) of a dict d: the text, or the exception the encoder raises
JsonDumps(d) == DumpItems(d.items, 1, "{")

\* ------------------------------------------------------- urlscan_session
\* STATUSES of urlscan_session
STATUSES == {429, 500, 502, 503, 504}

\* faulty variant: the strategy allows one retry more than asked for
Retry_OneMore(retries, backoff) ==
    [total |-> retries + 1, backoff_factor |-> backoff, status_forcelist |-> STATUSES,
     allowed_methods |-> {"HEAD", "GET", "PUT", "DELETE", "OPTIONS", "TRACE"},
     read |-> TRUE]

\* Retry(total=retries, backoff_factor=backoff, status_forcelist=STATUSES):
\* allowed_methods is left at the library default, which has no POST
Retry(retries, backoff) ==
    [total |-> retries, backoff_factor |-> backoff, status_forcelist |-> STATUSES,
     allowed_methods |-> {"HEAD", "GET", "PUT", "DELETE", "OPTIONS", "TRACE"},
     read |-> TRUE]

\* the adapter requests.Session() mounts by itself: no retry at all
DefaultRetry ==
    [total |-> 0, backoff_factor |-> 0, status_forcelist |-> {},
     allowed_methods |-> {"HEAD", "GET", "PUT", "DELETE", "OPTIONS", "TRACE"},
     read |-> FALSE]

\* session = requests.Session(); session.mount('https://', adapter)
urlscan_session(retries, backoff) ==
    [adapters |-> [https |-> Retry(retries, backoff), http |-> DefaultRetry],
     close_calls |-> 0]

IsHttps(url) == Len(url) >= 8 /\ SubSeq(url, 1, 8) = "https://"

\* the retry strategy of the adapter the session picks for url
get_adapter(s, url) == IF IsHttps(url) THEN s.adapters.https ELSE s.adapters.http

\* ------------------------------------------------------------ the remote
\* what one attempt can meet: an HTTP status, or a failure to connect / read
ServerStatuses == {200, 404, 429, 503}
Status(n) == [status |-> n, error |-> ""]
ConnectTimeout == [status |-> 0, error |-> "ConnectTimeout"]
ReadTimeout == [status |-> 0, error |-> "ReadTimeout"]
NoAnswer == [status |-> 0, error |-> "not sent"]
ServerAnswers == {Status(n) : n \in ServerStatuses} \cup {ConnectTimeout, ReadTimeout}

NoResponse == [kind |-> "None", status |-> 0, attempt |-> 0]
Response(status, n) == [kind |-> "Response", status |-> status, attempt |-> n]

\* the exceptions of requests that derive from requests.RequestException
RequestExceptions == {"RetryError", "ConnectTimeout", "ConnectionError", "ReadTimeout"}

\* Retry.is_retry(method, status_code)
is_retry(retry, method, status) ==
    /\ method \in retry.allowed_methods
    /\ status \in retry.status_forcelist

\* one attempt, numbered n, with `total` retries left, meeting answer a;
\* prev is the answer of the attempt before it and steady says whether
\* all attempts before this one met the same answer.  The result is the
\* set of ways session.request(...) can end.
RECURSIVE Attempt(_, _, _, _, _, _)
Attempt(retry, method, total, n, prev, steady) ==
    UNION { LET same == steady /\ (n = 1 \/ a = prev)
                Raise(e) == [response |-> NoResponse, exc |-> e,
                             attempts |-> n, last |-> a, steady |-> same]
                Again == IF total - 1 < 0
                         THEN {Raise(CASE a = ConnectTimeout -> "ConnectTimeout"
                                       [] a = ReadTimeout -> "ConnectionError"
                                       [] OTHER -> "RetryError")}
                         ELSE Attempt(retry, method, total - 1, n + 1, a, same)
            IN  CASE a = ConnectTimeout -> Again
                  [] a = ReadTimeout ->
                        IF retry.read /\ method \in retry.allowed_methods
                        THEN Again
                        ELSE {Raise("ReadTimeout")}
                  [] OTHER ->
                        IF is_retry(retry, method, a.status)
                        THEN Again
                        ELSE {[response |-> Response(a.status, n), exc |-> "",
                               attempts |-> n, last |-> a, steady |-> same]}
          : a \in ServerAnswers }

\* the retry strategies a session of this model can hold, and the methods used
Strategies == {Retry(r, 1) : r \in 0..MaxRetries} \cup {DefaultRetry}
Methods == {"GET", "POST"}

\* every way an exchange can end, per strategy and method
Exchanges ==
    [k \in Strategies \X Methods |-> Attempt(k[1], k[2], k[1].total, 1, NoAnswer, TRUE)]

\* session.request(method, url, ...): every way the exchange can end
SessionRequest(s, method, url) == Exchanges[<<get_adapter(s, url), method>>]

NoWire == [response |-> NoResponse, exc |-> "", attempts |-> 0, last |-> NoAnswer,
           steady |-> TRUE]

\* Session.__exit__ -> Session.close()
Close(s) == [s EXCEPT !.close_calls = @ + 1]

\* ------------------------------------------------------------ BaseUrlscan
URLSCAN_DOMAIN == "urlscan.io"
QUOTA_URL == "https://" \o URLSCAN_DOMAIN \o "/user/quotas/"
API_URL == "https://" \o URLSCAN_DOMAIN \o "/api/v1"
DOM_URL == "https://" \o URLSCAN_DOMAIN \o "/dom"
SCREENSHOT_URL == "https://" \o URLSCAN_DOMAIN \o "/screenshots"
RESPONSE_URL == "https://" \o URLSCAN_DOMAIN \o "/responses"
VISIBILITIES == {Str("public"), Str("private"), Str("unlisted")}

\* faulty variant: the API-Key header is set whether or not a key was given
InitHeaders_AlwaysKey(api_key, user_agent) ==
    LET ua == IF ~Truthy(user_agent) THEN Str("BasicUrlscanPy/v1") ELSE user_agent
    IN  [h \in {"Content-Type", "User-Agent", "API-Key"} |->
            CASE h = "Content-Type" -> Str("application/json")
              [] h = "User-Agent" -> ua
              [] OTHER -> api_key]

\* self.headers as built by __init__
InitHeaders(api_key, user_agent) ==
    LET ua == IF ~Truthy(user_agent) THEN Str("BasicUrlscanPy/v1") ELSE user_agent
        base == [h \in {"Content-Type", "User-Agent"} |->
                    IF h = "Content-Type" THEN Str("application/json") ELSE ua]
    IN  IF Truthy(api_key) THEN ("API-Key" :> api_key) @@ base ELSE base

NoHeaders == [h \in {} |-> None]
NoRequest == [method |-> "", url |-> "", headers |-> NoHeaders, data |-> None,
              params |-> None]

Returned(v) == [kind |-> "return", exc |-> "", value |-> v]
Raised(e) == [kind |-> "raise", exc |-> e, value |-> NoResponse]
NoResult == [kind |-> "", exc |-> "", value |-> NoResponse]

\* what one call does to the client: how it ends, whether it reached
\* session.request and with which arguments, and what the wire did
Rejected(e) == [result |-> Raised(e), sent |-> FALSE, request |-> NoRequest,
                wire |-> NoWire]

\* faulty variant: the request is issued without the client's headers
RequestArgs_NoHeaders(method, url, data, params) ==
    [method |-> method, url |-> url, headers |-> NoHeaders, data |-> data,
     params |-> params]

\* the arguments execute hands to session.request
RequestArgs(method, url, data, params) ==
    [method |-> method, url |-> url, headers |-> headers, data |-> data,
     params |-> params]

\* faulty variant: the except clause is missing, transport exceptions propagate
ExecuteReturn_Propagates(w) ==
    IF w.exc # "" THEN Raised(w.exc) ELSE Returned(w.response)

\* faulty variant: error statuses are turned into None, as after raise_for_status()
ExecuteReturn_ChecksStatus(w) ==
    IF w.exc \in RequestExceptions THEN Returned(NoResponse)
    ELSE IF w.response.status >= 400 THEN Returned(NoResponse)
    ELSE Returned(w.response)

\* the value execute returns for one way w the exchange ended
ExecuteReturn(w) ==
    IF w.exc \in RequestExceptions THEN Returned(NoResponse)
    ELSE IF w.exc # "" THEN Raised(w.exc)
    ELSE Returned(w.response)

\* execute(method, url, payload, params): the set of ways it can end
execute(method, url, payload, params) ==
    IF Truthy(payload) /\ payload.t # "dict"
    THEN {Rejected("ValueError")}
    ELSE LET dump == IF Truthy(payload) THEN JsonDumps(payload)
                     ELSE [exc |-> "", text |-> ""]
             data == IF Truthy(payload) THEN Str(dump.text) ELSE payload
         IN  IF dump.exc = "TypeError" THEN {Rejected("UrlscanInvalidPayload")}
             ELSE IF dump.exc # "" THEN {Rejected(dump.exc)}
             ELSE IF Truthy(params) /\ params.t # "dict"
             THEN {Rejected("ValueError")}
             ELSE {[result |-> ExecuteReturn(w), sent |-> TRUE,
                    request |-> RequestArgs(method, url, data, params),
                    wire |-> w]
                   : w \in SessionRequest(session, method, url)}

\* faulty variant: the url check of post_scan is missing
post_scan_NoUrlCheck(payload) ==
    IF payload.t # "dict" THEN {Rejected("ValueError")}
    ELSE IF Truthy(Get(payload, "visibility"))
            /\ Get(payload, "visibility") \notin VISIBILITIES
    THEN {Rejected("ValueError")}
    ELSE execute("POST", API_URL \o "/scan/", payload, None)

\* post_scan(payload)
post_scan(payload) ==
    IF payload.t # "dict" THEN {Rejected("ValueError")}
    ELSE IF ~Contains(payload, "url") THEN {Rejected("ValueError")}
    ELSE IF Truthy(Get(payload, "visibility"))
            /\ Get(payload, "visibility") \notin VISIBILITIES
    THEN {Rejected("ValueError")}
    ELSE execute("POST", API_URL \o "/scan/", payload, None)

\* get_search(params)
get_search(params) ==
    IF params.t # "dict" THEN {Rejected("ValueError")}
    ELSE IF ~Contains(params, "q") THEN {Rejected("ValueError")}
    ELSE execute("GET", API_URL \o "/search/", None, params)

get_quotas == execute("GET", QUOTA_URL, None, None)
get_result(result_uuid) == execute("GET", API_URL \o "/result/" \o result_uuid, None, None)
get_screenshot(result_uuid) == execute("GET", SCREENSHOT_URL \o "/" \o result_uuid, None, None)
get_dom(result_uuid) == execute("GET", DOM_URL \o "/" \o result_uuid, None, None)
get_response(response_sha256) == execute("GET", RESPONSE_URL \o "/" \o response_sha256, None, None)
get_scan_countries == execute("GET", API_URL \o "/availableCountries/", None, None)

\* ----------------------------------------------------------------- inputs
ApiKeys == {None, Str(""), Str("secret-key")}
UserAgents == {None, Str("BobSecurityScanner/v1")}

\* the constructor calls that are tried, <<api_key, user_agent, retries>>: the
\* headers depend on the first two arguments only and the session on the
\* third only, so each is varied with the other held fixed
Constructions ==
    (ApiKeys \X UserAgents \X {0})
    \cup {<<Str("secret-key"), Str("BobSecurityScanner/v1"), r>> : r \in 0..MaxRetries}

Url == <<Str("url"), Str("http://example.com")>>
Vis(v) == <<Str("visibility"), v>>

NonMappings ==
    {None, Str(""), Str("http://example.com"), Val("list", "[]"), Val("int", "0"),
     Val("bool", "False")}
GoodDicts ==
    {Dict(<<Url>>)} \cup {Dict(<<Url, Vis(v)>>) : v \in VISIBILITIES}
BadVisDicts ==
    {Dict(<<Url, Vis(v)>>) : v \in {Str("secret"), Str(""), None}}
UnserializableDicts ==
    {Dict(<<Url, <<Str("tags"), Val("set", "{'a'}")>> >>),
     Dict(<<Url, <<Val("tuple", "(1, 2)"), Str("x")>> >>),
     Dict(<<Url, <<Str("me"), SelfRef>> >>)}
OtherDicts ==
    {Dict(<<>>), Dict(<<Vis(Str("public"))>>), OrderedDict(<<Url>>)}
Payloads == NonMappings \cup GoodDicts \cup BadVisDicts \cup UnserializableDicts
            \cup OtherDicts

Params ==
    {None, Dict(<<>>), Dict(<< <<Str("q"), Str("domain:example.com")>> >>),
     Dict(<< <<Str("size"), Str("10")>> >>), Str("q=x"), Val("list", "[]")}

Uuids == {"abc-123"}

\* the direct calls of execute that are tried
ExecuteCalls ==
    {<<"POST", API_URL \o "/scan/", p, None>> : p \in Payloads}
    \cup {<<"GET", API_URL \o "/search/", None, q>> : q \in Params}
    \cup {<<"GET", "http://" \o URLSCAN_DOMAIN \o "/api/v1/search/", None, None>>}

\* ------------------------------------------------------------ the machine
\* BaseUrlscan(api_key, user_agent, retries, backoff) has been constructed
Init ==
    \E c \in Constructions :
        /\ args = [api_key |-> c[1], user_agent |-> c[2], retries |-> c[3],
                   backoff |-> 1]
        /\ headers = InitHeaders(c[1], c[2])
        /\ session = urlscan_session(c[3], 1)
        /\ call = [op |-> "", method |-> "", url |-> "", payload |-> None,
                   params |-> None, requests_before |-> 0]
        /\ result = NoResult
        /\ request = NoRequest
        /\ wire = NoWire
        /\ nrequests = 0
        /\ ncalls = 0

\* one public call `op` with the given arguments ending the way `o`
Call(op, method, url, payload, params, o) ==
    /\ ncalls' = ncalls + 1
    /\ call' = [op |-> op, method |-> method, url |-> url, payload |-> payload,
                params |-> params, requests_before |-> nrequests]
    /\ result' = o.result
    /\ IF o.sent
       THEN /\ request' = o.request
            /\ wire' = o.wire
            /\ nrequests' = nrequests + 1
            /\ session' = Close(session)
       ELSE /\ request' = NoRequest
            /\ wire' = NoWire
            /\ UNCHANGED <<nrequests, session>>
    /\ UNCHANGED <<args, headers>>

Execute ==
    /\ ncalls < MaxCalls
    /\ \E c \in ExecuteCalls : \E o \in execute(c[1], c[2], c[3], c[4]) :
        Call("execute", c[1], c[2], c[3], c[4], o)

PostScan ==
    /\ ncalls < MaxCalls
    /\ \E p \in Payloads : \E o \in post_scan(p) :
        Call("post_scan", "", "", p, None, o)

GetSearch ==
    /\ ncalls < MaxCalls
    /\ \E q \in Params : \E o \in get_search(q) :
        Call("get_search", "", "", None, q, o)

GetQuotas ==
    /\ ncalls < MaxCalls
    /\ \E o \in get_quotas : Call("get_quotas", "", "", None, None, o)

GetResult ==
    /\ ncalls < MaxCalls
    /\ \E u \in Uuids : \E o \in get_result(u) :
        Call("get_result", "", "", Str(u), None, o)

GetScreenshot ==
    /\ ncalls < MaxCalls
    /\ \E u \in Uuids : \E o \in get_screenshot(u) :
        Call("get_screenshot", "", "", Str(u), None, o)

GetDom ==
    /\ ncalls < MaxCalls
    /\ \E u \in Uuids : \E o \in get_dom(u) :
        Call("get_dom", "", "", Str(u), None, o)

GetResponse ==
    /\ ncalls < MaxCalls
    /\ \E u \in Uuids : \E o \in get_response(u) :
        Call("get_response", "", "", Str(u), None, o)

GetScanCountries ==
    /\ ncalls < MaxCalls
    /\ \E o \in get_scan_countries : Call("get_scan_countries", "", "", None, None, o)

Next ==
    \/ Execute
    \/ PostScan
    \/ GetSearch
    \/ GetQuotas
    \/ GetResult
    \/ GetScreenshot
    \/ GetDom
    \/ GetResponse
    \/ GetScanCountries

Spec == Init /\ [][Next]_vars

\* ------------------------------------------------------------- properties
\* the latest call issued an HTTP request on the session
RequestIssued == nrequests # call.requests_before

IsMapping(x) == x.t \in {"dict", "OrderedDict"}

\* C1: every payload that is not a mapping (the falsy ones included) makes
\* post_scan and execute fail with ValueError without any HTTP request
C1_NonMappingPayloadRejected ==
    (/\ call.op \in {"execute", "post_scan"}
     /\ call.payload # None
     /\ ~IsMapping(call.payload))
    => (result = Raised("ValueError") /\ ~RequestIssued)

\* C2: when session.request raises a transport-level failure, the call returns
\* None and raises nothing, whichever public operation was called
C2_TransportFailureReturnsNone ==
    (RequestIssued /\ wire.exc # "") => result = Returned(NoResponse)

C2_Witness ==
    /\ RequestIssued
    /\ call.op = "post_scan"
    /\ wire.exc = "ReadTimeout"
    /\ result = Returned(NoResponse)

\* C3: a post_scan payload with url and visibility keys fails with ValueError
\* and no request when the visibility is outside VISIBILITIES (falsy values
\* included), and goes on to execute and the wire when it is inside
C3_VisibilityValidated ==
    (/\ call.op = "post_scan"
     /\ call.payload.t = "dict"
     /\ Contains(call.payload, "url")
     /\ Contains(call.payload, "visibility"))
    => IF Get(call.payload, "visibility") \in VISIBILITIES
       THEN RequestIssued
       ELSE result = Raised("ValueError") /\ ~RequestIssued

\* C4: execute with a non-empty dict that json.dumps cannot serialize, for
\* whatever reason, fails with UrlscanInvalidPayload and issues no request
C4_UnserializableIsInvalidPayload ==
    (/\ call.op = "execute"
     /\ call.payload.t = "dict"
     /\ Truthy(call.payload)
     /\ JsonDumps(call.payload).exc # "")
    => (result = Raised("UrlscanInvalidPayload") /\ ~RequestIssued)

C6_AttemptsBounded ==
    (RequestIssued /\ wire.steady /\ wire.last = Status(503))
    => /\ wire.attempts <= args.retries + 1
       /\ wire.exc = "RetryError" \/ wire.response = Response(503, wire.attempts)

C6_Witness ==
    /\ RequestIssued
    /\ request.method = "GET"
    /\ args.retries = MaxRetries
    /\ wire.steady /\ wire.last = Status(503)
    /\ wire.attempts = MaxRetries + 1
    /\ wire.exc = "RetryError"

\* C7 as stated: whenever the exchange ends on an HTTP status, whatever it is,
\* the call returns that response and never None
C7_AnyStatusIsReturned ==
    (RequestIssued /\ wire.last.error = "")
    => result = Returned(Response(wire.last.status, wire.attempts))

\* C7 as amended: a response session.request hands back is returned unchanged,
\* whatever its status; but a GET whose last allowed attempt is answered with
\* a status of STATUSES ends in RetryError and the call returns None
C7_ResponseReturnedUnlessRetriesExhausted ==
    (RequestIssued /\ wire.last.error = "")
    => IF /\ request.method = "GET"
          /\ IsHttps(request.url)
          /\ wire.last.status \in STATUSES
       THEN /\ wire.attempts = args.retries + 1
            /\ wire.exc = "RetryError"
            /\ result = Returned(NoResponse)
       ELSE /\ wire.exc = ""
            /\ result = Returned(Response(wire.last.status, wire.attempts))

C7_Witness ==
    /\ RequestIssued
    /\ call.op = "post_scan"
    /\ result = Returned(Response(503, 1))

\* C8: no call closes or releases the session created by the constructor
C8_SessionNeverClosed == session.close_calls = 0

\* C9: self.headers stays the header set the constructor built, and every
\* request is issued with exactly that header set
C9_HeadersFixed ==
    /\ headers = InitHeaders(args.api_key, args.user_agent)
    /\ RequestIssued => request.headers = InitHeaders(args.api_key, args.user_agent)

C9_Witness ==
    /\ ncalls = MaxCalls
    /\ nrequests = MaxCalls
    /\ "API-Key" \in DOMAIN request.headers

====
